---- MODULE Spec2Model ----
(***************************************************************************)
(* A model of readme.py: the lines-of-code cache (cache_builder,           *)
(* flush_cache, force_close_file), the commit history walker               *)
(* (recursive_loc, loc_counter_one_repo), the archive aggregation          *)
(* (add_archive), the badge filler (justify_format) and the pull-request / *)
(* issue counters (get_pr_issue_counts, _iter_paginated_rest).             *)
(*                                                                         *)
(* A cache row "hash total my add del" is the record of its five fields:   *)
(* str() of a non-negative int and int() of its decimal text are inverse,  *)
(* and every row of the file is written by the program itself.             *)
(* Python indices are 0-based (index, cursor), sequences here 1-based.     *)
(***************************************************************************)
EXTENDS Integers, Sequences, FiniteSets, TLC

\* ---------------------------------------------------------------- bounds
MaxCount == 1        \* largest live totalCount the listing reports
PageSize == 2        \* commits per history page (history(first: 100) in the program)
MaxCommits == 5      \* longest commit history on the server
MaxValue == 1200     \* largest of the consecutive integers given to justify_format
MaxText == 14        \* longest string given to justify_format
MaxLength == 12      \* largest target width given to justify_format
MaxArchiveRows == 2  \* most data rows of repository_archive.txt
MaxItems == 2        \* most items of one REST page
MaxRestPages == 2    \* most pages of one REST listing

\* ------------------------------------------------------- program constants
comment_size == 7    \* loc_query(..., 7) in __main__

\* ------------------------------------------------------------------ helpers
Min(a, b) == IF a < b THEN a ELSE b
Max(a, b) == IF a > b THEN a ELSE b

\* Python's s[:n] and s[n:] for 0 <= n
Take(s, n) == SubSeq(s, 1, Min(n, Len(s)))
Drop(s, n) == SubSeq(s, Min(n, Len(s)) + 1, Len(s))

\* ------------------------------------------------------------ the GitHub side
USER_NAME == "PenguinDevs"
owner_id == "MDQ6VXNlcjM0MTIyMTE2"
other_id == "MDQ6VXNlcjE="
Authors == {owner_id, other_id}

\* the repositories the listing can name
Names == {"PenguinDevs/a", "PenguinDevs/b"}

\* hashlib.sha256(name).hexdigest(): distinct names, distinct digests
sha256(name) ==
    CASE name = "PenguinDevs/a" -> "ca978112"
      [] name = "PenguinDevs/b" -> "3e23e816"
      [] OTHER -> "e3b0c442"

\* one commit node of a history page
Commits == [author : Authors, additions : {0, 2}, deletions : {0, 1}]

RECURSIVE SeqsUpTo(_, _)
SeqsUpTo(S, n) ==
    IF n = 0 THEN {<<>>}
    ELSE LET shorter == SeqsUpTo(S, n - 1)
         IN shorter \cup {Append(s, x) : s \in {t \in shorter : Len(t) = n - 1}, x \in S}

\* a repository as the history query sees it: no default branch, or a commit list
Repositories ==
    {[defaultBranchRef |-> FALSE, commits |-> <<>>]}
      \cup [defaultBranchRef : {TRUE}, commits : SeqsUpTo(Commits, MaxCommits)]

\* the page the server returns for history(first: PageSize, after: cursor);
\* a cursor is the number of commits before the page (None is 0)
HistoryPage(commits, cursor) ==
    LET edges == SubSeq(commits, cursor + 1, Min(cursor + PageSize, Len(commits)))
    IN [edges |-> edges,
        pageInfo |-> [endCursor |-> cursor + Len(edges),
                      hasNextPage |-> cursor + PageSize < Len(commits)]]

Statuses == {200, 403, 500}

\* one edge of the repository listing of loc_query
Edges ==
    {[nameWithOwner |-> n, defaultBranchRef |-> FALSE, totalCount |-> 0] : n \in Names}
      \cup [nameWithOwner : Names, defaultBranchRef : {TRUE}, totalCount : 0..MaxCount]

\* the listing names a repository once
EdgeLists ==
    {e \in SeqsUpTo(Edges, Cardinality(Names)) :
        \A i, j \in 1..Len(e) : i # j => e[i].nameWithOwner # e[j].nameWithOwner}

\* ------------------------------------------------------------------- state
VARIABLES
    server,          \* GitHub: nameWithOwner -> repository as the history query sees it
    cacheFile,       \* cache/<sha256(USER_NAME)>.txt: [exists, lines]
    pc,              \* "idle", "loop" (cache_builder's for loop), "walk" (in
                     \* recursive_loc), "done" (returned), "crashed" (raised)
    edges,           \* cache_builder's repository list
    force_cache,     \* cache_builder's flag
    cached,          \* cache_builder's cached
    cache_comment,   \* the comment block in memory
    data,            \* the rows in memory
    index,           \* the for loop's index (0-based)
    cursor,          \* recursive_loc's cursor
    addition_total,  \* recursive_loc's running totals
    deletion_total,
    my_commits,
    status_code,     \* request.status_code of recursive_loc's last response, 0 if none
    loc,             \* cache_builder's loc: what recursive_loc returned last
    QUERY_COUNT,     \* QUERY_COUNT["recursive_loc"] of this process
    result,          \* what cache_builder returned: <<loc_add, loc_del, net, cached>>
    error,           \* the exception that ended the process, "" if none
    \* history of the run, read by the properties only
    data0,           \* the rows when the for loop started
    resynced,        \* the row count differed from the list's length in this pass
    walkStarted,     \* indices for which recursive_loc was called in this pass
    walkDone,        \* indices whose walk returned in this pass
    walkQueries,     \* queries issued by the walk in progress (or the last one)
    walkWrites,      \* writes of the cache file by that walk
    rerun,           \* "first", or how the previous pass on the same list ended
    prevResult,      \* the previous pass's result, when rerun = "done"
    prevDone         \* the previous pass's walkDone, when rerun = "crashed"

VARIABLES
    root,            \* the SVG document: element id -> text
    element_id,      \* justify_format's arguments
    new_text,        \* [int |-> n] or [str |-> s]
    length,
    jpc              \* "call" before justify_format, "done" after it

VARIABLES
    archive,         \* the lines of repository_archive.txt, each split into fields
    archive_data,    \* what add_archive returned
    apc              \* "call" before add_archive, "done" after it

VARIABLES
    mpc,             \* the step of __main__ that comes next, "done" or "aborted"
    rest_page,       \* the page _iter_paginated_rest requests next
    results,         \* len(results) in _iter_paginated_rest
    pr_results,      \* len(pr_results) in get_pr_issue_counts
    pr_count,        \* __main__'s pr_count and issue_count
    issue_count,
    failure,         \* the class of the failures that occurred
    pr_failed        \* get_pr_issue_counts caught an exception

justifyVars == <<root, element_id, new_text, length, jpc>>
archiveVars == <<archive, archive_data, apc>>
mainVars == <<mpc, rest_page, results, pr_results, pr_count, issue_count, failure, pr_failed>>

cacheVars ==
    <<server, cacheFile, pc, edges, force_cache, cached, cache_comment, data, index,
      cursor, addition_total, deletion_total, my_commits, status_code, loc, QUERY_COUNT,
      result, error, data0, resynced, walkStarted, walkDone, walkQueries, walkWrites, rerun, prevResult,
      prevDone>>

vars == <<cacheVars, justifyVars, archiveVars, mainVars>>

\* --------------------------------------------------------------- cache lines
Placeholder == [text |-> "This line is a comment block. Write whatever you want here."]
UserComment == [text |-> "edited by hand"]

Row(repo_hash, total, mine, additions, deletions) ==
    [repo_hash |-> repo_hash, total_commits |-> total, my_commits |-> mine,
     additions |-> additions, deletions |-> deletions]

ZeroRow(name) == Row(sha256(name), 0, 0, 0, 0)

\* ---------------------------------------------------------------- flush_cache
\* (flush_cache writing the live commit count into the new rows)
flush_cache_live_count(e, lines, size) ==
    (IF size > 0 THEN Take(lines, size) ELSE <<>>)
      \o [i \in 1..Len(e) |-> Row(sha256(e[i].nameWithOwner), e[i].totalCount, 0, 0, 0)]

\* (flush_cache writing new placeholder lines in the place of the comment block)
flush_cache_new_comment(e, lines, size) ==
    [i \in 1..size |-> Placeholder]
      \o [i \in 1..Len(e) |-> ZeroRow(e[i].nameWithOwner)]

\* the lines of the file after flush_cache(edges, filename, comment_size)
flush_cache(e, lines, size) ==
    (IF size > 0 THEN Take(lines, size) ELSE <<>>)
      \o [i \in 1..Len(e) |-> ZeroRow(e[i].nameWithOwner)]

\* ----------------------------------------------------------- force_close_file
\* (force_close_file writing the comment block alone, or the rows alone)
force_close_file_comment_only(rows, comment) == comment
force_close_file_rows_only(rows, comment) == rows

\* the lines of the file after force_close_file(data, cache_comment)
force_close_file(rows, comment) == comment \o rows

\* ------------------------------------------------------- loc_counter_one_repo
\* (the for loop without the test of the author)
RECURSIVE count_edges_any_author(_, _, _, _)
count_edges_any_author(nodes, additions, deletions, mine) ==
    IF nodes = <<>> THEN <<additions, deletions, mine>>
    ELSE count_edges_any_author(Tail(nodes), additions + Head(nodes).additions,
                                deletions + Head(nodes).deletions, mine + 1)

\* the for loop over history["edges"]
RECURSIVE count_edges(_, _, _, _)
count_edges(nodes, additions, deletions, mine) ==
    IF nodes = <<>> THEN <<additions, deletions, mine>>
    ELSE LET node == Head(nodes)
         IN IF node.author = owner_id
            THEN count_edges(Tail(nodes), additions + node.additions,
                             deletions + node.deletions, mine + 1)
            ELSE count_edges(Tail(nodes), additions, deletions, mine)

\* one call: it returns the totals, or calls recursive_loc with the end cursor
loc_counter_one_repo(history, additions, deletions, mine) ==
    LET totals == count_edges(history.edges, additions, deletions, mine)
    IN IF history.edges = <<>> \/ ~history.pageInfo.hasNextPage
       THEN [kind |-> "return", loc |-> totals, cursor |-> 0]
       ELSE [kind |-> "recurse", loc |-> totals, cursor |-> history.pageInfo.endCursor]

\* -------------------------------------------------------------- recursive_loc
\* (recursive_loc taking a missing default branch for a failure)
recursive_loc_empty_fails(status, repo, additions, deletions, mine, after) ==
    IF status = 200 /\ repo.defaultBranchRef
    THEN loc_counter_one_repo(HistoryPage(repo.commits, after), additions, deletions, mine)
    ELSE [kind |-> "raise", loc |-> <<additions, deletions, mine>>, cursor |-> after]

\* one call of recursive_loc up to its return, its next call or its raise
recursive_loc(status, repo, additions, deletions, mine, after) ==
    IF status = 200
    THEN IF repo.defaultBranchRef
         THEN loc_counter_one_repo(HistoryPage(repo.commits, after),
                                   additions, deletions, mine)
         ELSE [kind |-> "return", loc |-> <<0, 0, 0>>, cursor |-> 0]
    ELSE [kind |-> "raise", loc |-> <<additions, deletions, mine>>, cursor |-> after]

\* (the row written with the user's commit count in the place of the live count)
walked_row_my_count(repo_hash, edge, walked) ==
    Row(repo_hash, walked[3], walked[3], walked[1], walked[2])

\* (the row written with the additions and the deletions in each other's place)
walked_row_swapped(repo_hash, edge, walked) ==
    Row(repo_hash, edge.totalCount, walked[3], walked[2], walked[1])

\* the row cache_builder writes after a walk
walked_row(repo_hash, edge, walked) ==
    Row(repo_hash, edge.totalCount, walked[3], walked[1], walked[2])

\* (the sums taking the last row alone)
sum_rows_last(rows, loc_add, loc_del) ==
    IF rows = <<>> THEN <<loc_add, loc_del>>
    ELSE <<loc_add + rows[Len(rows)].additions, loc_del + rows[Len(rows)].deletions>>

\* the totals of the rows
RECURSIVE sum_rows(_, _, _)
sum_rows(rows, loc_add, loc_del) ==
    IF rows = <<>> THEN <<loc_add, loc_del>>
    ELSE sum_rows(Tail(rows), loc_add + Head(rows).additions, loc_del + Head(rows).deletions)

\* -------------------------------------------------------------- cache_builder
\* a new process calls cache_builder(e, comment_size, f): it loads the file,
\* creates it if absent, resynchronises it if need be, and splits it
BeginPass(e, f) ==
    /\ pc \in {"idle", "done", "crashed"}
    /\ LET loaded == IF cacheFile.exists THEN cacheFile.lines
                     ELSE [i \in 1..comment_size |-> Placeholder]
           resync == Len(loaded) - comment_size # Len(e) \/ f
           lines == IF resync THEN flush_cache(e, loaded, comment_size) ELSE loaded
       IN /\ cacheFile' = [exists |-> TRUE, lines |-> lines]
          /\ cached' = ~resync
          /\ resynced' = (Len(loaded) - comment_size # Len(e))
          /\ cache_comment' = Take(lines, comment_size)
          /\ data' = Drop(lines, comment_size)
          /\ data0' = Drop(lines, comment_size)
    /\ edges' = e
    /\ force_cache' = f
    /\ index' = 0
    /\ pc' = "loop"
    /\ cursor' = 0 /\ addition_total' = 0 /\ deletion_total' = 0 /\ my_commits' = 0
    /\ status_code' = 0 /\ loc' = <<>> /\ QUERY_COUNT' = 0
    /\ result' = <<>> /\ error' = ""
    /\ walkStarted' = {} /\ walkDone' = {} /\ walkQueries' = 0 /\ walkWrites' = 0
    /\ rerun' = IF pc = "idle" \/ e # edges THEN "first" ELSE pc
    /\ prevResult' = IF pc = "done" /\ e = edges THEN result ELSE <<>>
    /\ prevDone' = IF pc = "crashed" /\ e = edges THEN walkDone ELSE {}
    /\ UNCHANGED <<server, justifyVars, archiveVars, mainVars>>

\* one turn of the for loop that does not reach recursive_loc's request
LoopStep ==
    /\ pc = "loop"
    /\ index < Len(edges)
    /\ IF index >= Len(data)
       THEN \* data[index] raises IndexError
            /\ pc' = "crashed" /\ error' = "IndexError"
            /\ UNCHANGED <<data, index, walkStarted>>
       ELSE LET row == data[index + 1]
                edge == edges[index + 1]
            IN IF row.repo_hash # sha256(edge.nameWithOwner)
               THEN /\ index' = index + 1
                    /\ UNCHANGED <<data, pc, error, walkStarted>>
               ELSE IF ~edge.defaultBranchRef
               THEN \* TypeError: the repository is empty
                    /\ data' = [data EXCEPT ![index + 1] = Row(row.repo_hash, 0, 0, 0, 0)]
                    /\ index' = index + 1
                    /\ UNCHANGED <<pc, error, walkStarted>>
               ELSE IF row.total_commits # edge.totalCount
               THEN /\ pc' = "walk"
                    /\ walkStarted' = walkStarted \cup {index}
                    /\ UNCHANGED <<data, index, error>>
               ELSE /\ index' = index + 1
                    /\ UNCHANGED <<data, pc, error, walkStarted>>
    /\ cursor' = 0 /\ addition_total' = 0 /\ deletion_total' = 0 /\ my_commits' = 0
    /\ walkQueries' = 0 /\ walkWrites' = 0
    /\ UNCHANGED <<server, cacheFile, edges, force_cache, cached, cache_comment,
                   status_code, loc, QUERY_COUNT, result, data0, resynced, walkDone, rerun, prevResult,
                   prevDone>>
    /\ UNCHANGED <<justifyVars, archiveVars, mainVars>>

\* ------------------------------------------------------------ the call stack
\* recursive_loc and loc_counter_one_repo call each other once per page and
\* return only when the last page is in, so every page but the last leaves
\* two frames on the interpreter's stack. The program never changes the
\* interpreter's recursion limit, which is 1000 frames.
RecursionLimit == 1000

\* the frames under the first recursive_loc: the module, perf_counter,
\* loc_query (one call when the listing has one page) and cache_builder
FramesBelowWalk == 4

\* the frames one page leaves on the stack: recursive_loc, loc_counter_one_repo
FramesPerPage == 2

\* the frames recursive_loc puts on its own for the request: simple_request
\* and requests.post (the library's frames under post are not counted, so
\* the interpreter gives up no later than this count says)
FramesOfRequest == 2

\* the k-th nested call of recursive_loc can make its request
stack_allows(k) ==
    FramesBelowWalk + FramesPerPage * (k - 1) + 1 + FramesOfRequest <= RecursionLimit

\* one call of recursive_loc: the query, and what follows the response
WalkPage(status) ==
    /\ pc = "walk"
    /\ QUERY_COUNT' = QUERY_COUNT + 1
    /\ walkQueries' = walkQueries + 1
    /\ status_code' = IF stack_allows(walkQueries + 1) THEN status ELSE status_code
    /\ LET edge == edges[index + 1]
           out == IF stack_allows(walkQueries + 1)
                  THEN recursive_loc(status, server[edge.nameWithOwner], addition_total,
                                     deletion_total, my_commits, cursor)
                  ELSE [kind |-> "RecursionError"]
       IN CASE out.kind = "RecursionError" ->
                 \* the exception leaves recursive_loc and cache_builder, which
                 \* catches TypeError alone: nothing is written
                 /\ error' = "RecursionError"
                 /\ pc' = "crashed"
                 /\ UNCHANGED <<addition_total, deletion_total, my_commits, cursor,
                                data, index, walkDone, loc, cacheFile, walkWrites>>
            [] out.kind = "recurse" ->
                 /\ addition_total' = out.loc[1]
                 /\ deletion_total' = out.loc[2]
                 /\ my_commits' = out.loc[3]
                 /\ cursor' = out.cursor
                 /\ UNCHANGED <<pc, data, index, cacheFile, error, walkDone, loc,
                                walkWrites>>
            [] out.kind = "return" ->
                 /\ data' = [data EXCEPT ![index + 1] =
                                walked_row(data[index + 1].repo_hash, edge, out.loc)]
                 /\ index' = index + 1
                 /\ walkDone' = walkDone \cup {index}
                 /\ pc' = "loop"
                 /\ loc' = out.loc
                 /\ UNCHANGED <<addition_total, deletion_total, my_commits, cursor,
                                cacheFile, error, walkWrites>>
            [] out.kind = "raise" ->
                 /\ cacheFile' = [exists |-> TRUE,
                                  lines |-> force_close_file(data, cache_comment)]
                 /\ error' = IF status = 403 THEN "anti-abuse limit"
                             ELSE "recursive_loc() has failed"
                 /\ pc' = "crashed"
                 /\ walkWrites' = walkWrites + 1
                 /\ UNCHANGED <<addition_total, deletion_total, my_commits, cursor,
                                data, index, walkDone, loc>>
    /\ UNCHANGED <<server, edges, force_cache, cached, cache_comment, result, data0,
                   resynced, walkStarted, rerun, prevResult, prevDone>>
    /\ UNCHANGED <<justifyVars, archiveVars, mainVars>>

\* after the loop: the file is written and the rows are summed
FinishPass ==
    /\ pc = "loop"
    /\ index = Len(edges)
    /\ cacheFile' = [exists |-> TRUE, lines |-> cache_comment \o data]
    /\ LET total == sum_rows(data, 0, 0)
       IN result' = <<total[1], total[2], total[1] - total[2], cached>>
    /\ pc' = "done"
    /\ UNCHANGED <<server, edges, force_cache, cached, cache_comment, data, index, cursor,
                   addition_total, deletion_total, my_commits, status_code, loc,
                   QUERY_COUNT, error, data0, resynced, walkStarted, walkDone, walkQueries, walkWrites, rerun,
                   prevResult, prevDone>>
    /\ UNCHANGED <<justifyVars, archiveVars, mainVars>>

\* ------------------------------------------------------ the cache across runs
by_me(a, d) == [author |-> owner_id, additions |-> a, deletions |-> d]
by_other(a, d) == [author |-> other_id, additions |-> a, deletions |-> d]

\* the histories on the server while the cache is exercised: a history of
\* mixed authors, three pages long when a page holds two commits, beside a
\* history by others only or beside an empty repository
MixedHistory ==
    [defaultBranchRef |-> TRUE,
     commits |-> <<by_me(2, 0), by_other(2, 1), by_me(0, 1), by_me(2, 1), by_other(0, 1)>>]

CacheServers ==
    {[n \in Names |->
        IF n = "PenguinDevs/a" THEN MixedHistory
        ELSE [defaultBranchRef |-> TRUE, commits |-> <<by_other(2, 1)>>]],
     [n \in Names |->
        IF n = "PenguinDevs/b" THEN MixedHistory
        ELSE [defaultBranchRef |-> FALSE, commits |-> <<>>]]}

\* the parts of the program a specification leaves at rest
CacheIdle ==
    /\ server = [n \in Names |-> [defaultBranchRef |-> FALSE, commits |-> <<>>]]
    /\ cacheFile = [exists |-> FALSE, lines |-> <<>>]
    /\ pc = "idle"
    /\ edges = <<>> /\ force_cache = FALSE /\ cached = TRUE
    /\ cache_comment = <<>> /\ data = <<>> /\ index = 0
    /\ cursor = 0 /\ addition_total = 0 /\ deletion_total = 0 /\ my_commits = 0
    /\ status_code = 0 /\ loc = <<>> /\ QUERY_COUNT = 0 /\ result = <<>> /\ error = ""
    /\ data0 = <<>> /\ resynced = FALSE /\ walkStarted = {} /\ walkDone = {}
    /\ walkQueries = 0 /\ walkWrites = 0 /\ rerun = "first" /\ prevResult = <<>>
    /\ prevDone = {}

JustifyIdle ==
    /\ root = <<>> /\ element_id = "" /\ new_text = [str |-> ""] /\ length = 0
    /\ jpc = "idle"

ArchiveIdle == archive = <<>> /\ archive_data = <<>> /\ apc = "idle"

MainIdle ==
    /\ mpc = "idle" /\ rest_page = 0 /\ results = 0 /\ pr_results = 0
    /\ pr_count = 0 /\ issue_count = 0 /\ failure = "" /\ pr_failed = FALSE

CacheInit ==
    /\ JustifyIdle /\ ArchiveIdle /\ MainIdle
    /\ server \in CacheServers
    /\ cacheFile \in {[exists |-> FALSE, lines |-> <<>>],
                      [exists |-> TRUE, lines |-> [i \in 1..comment_size |-> UserComment]]}
    /\ pc = "idle"
    /\ edges = <<>> /\ force_cache = FALSE /\ cached = TRUE
    /\ cache_comment = <<>> /\ data = <<>> /\ index = 0
    /\ cursor = 0 /\ addition_total = 0 /\ deletion_total = 0 /\ my_commits = 0
    /\ status_code = 0 /\ loc = <<>> /\ QUERY_COUNT = 0 /\ result = <<>> /\ error = ""
    /\ data0 = <<>> /\ resynced = FALSE /\ walkStarted = {} /\ walkDone = {}
    /\ walkQueries = 0 /\ walkWrites = 0 /\ rerun = "first" /\ prevResult = <<>> /\ prevDone = {}

CacheNext ==
    \/ \E e \in EdgeLists, f \in BOOLEAN : BeginPass(e, f)
    \/ LoopStep
    \/ \E status \in Statuses : WalkPage(status)
    \/ FinishPass

SpecCache == CacheInit /\ [][CacheNext]_vars

\* ------------------------------------------------------- the walker on its own
\* cache_builder on a new cache file has reached recursive_loc for the one
\* repository of its list; the repository on the server is any repository
WalkedName == "PenguinDevs/a"

WalkInit ==
    /\ JustifyIdle /\ ArchiveIdle /\ MainIdle
    /\ \E repo \in Repositories :
           server = [n \in Names |->
                        IF n = WalkedName THEN repo
                        ELSE [defaultBranchRef |-> FALSE, commits |-> <<>>]]
    /\ edges = <<[nameWithOwner |-> WalkedName, defaultBranchRef |-> TRUE,
                  totalCount |-> MaxCount]>>
    /\ cache_comment = [i \in 1..comment_size |-> Placeholder]
    /\ data = <<ZeroRow(WalkedName)>>
    /\ data0 = data
    /\ cacheFile = [exists |-> TRUE, lines |-> cache_comment \o data]
    /\ pc = "walk"
    /\ force_cache = FALSE /\ cached = FALSE /\ resynced = TRUE /\ index = 0
    /\ cursor = 0 /\ addition_total = 0 /\ deletion_total = 0 /\ my_commits = 0
    /\ status_code = 0 /\ loc = <<>> /\ QUERY_COUNT = 0 /\ result = <<>> /\ error = ""
    /\ walkStarted = {0} /\ walkDone = {}
    /\ walkQueries = 0 /\ walkWrites = 0 /\ rerun = "first" /\ prevResult = <<>>
    /\ prevDone = {}

WalkNext ==
    \/ \E status \in Statuses : WalkPage(status)
    \/ FinishPass

SpecWalk == WalkInit /\ [][WalkNext]_vars

\* ------------------------------------------------------- the walker on a long history
\* the most calls of recursive_loc the stack holds, one in the other
MaxNesting == (RecursionLimit - FramesBelowWalk - FramesOfRequest - 1) \div FramesPerPage + 1

\* a history of n commits of the tracked user
LongHistory(n) == [defaultBranchRef |-> TRUE, commits |-> [i \in 1..n |-> by_me(2, 1)]]

\* histories of one page less than the stack holds, of as many, and of one more
LongHistories ==
    {LongHistory((MaxNesting - 1) * PageSize),
     LongHistory(MaxNesting * PageSize),
     LongHistory(MaxNesting * PageSize + 1)}

\* as WalkInit, the repository on the server having one of the long histories
LongWalkInit ==
    /\ JustifyIdle /\ ArchiveIdle /\ MainIdle
    /\ \E repo \in LongHistories :
           server = [n \in Names |->
                        IF n = WalkedName THEN repo
                        ELSE [defaultBranchRef |-> FALSE, commits |-> <<>>]]
    /\ edges = <<[nameWithOwner |-> WalkedName, defaultBranchRef |-> TRUE,
                  totalCount |-> MaxCount]>>
    /\ cache_comment = [i \in 1..comment_size |-> Placeholder]
    /\ data = <<ZeroRow(WalkedName)>>
    /\ data0 = data
    /\ cacheFile = [exists |-> TRUE, lines |-> cache_comment \o data]
    /\ pc = "walk"
    /\ force_cache = FALSE /\ cached = FALSE /\ resynced = TRUE /\ index = 0
    /\ cursor = 0 /\ addition_total = 0 /\ deletion_total = 0 /\ my_commits = 0
    /\ status_code = 0 /\ loc = <<>> /\ QUERY_COUNT = 0 /\ result = <<>> /\ error = ""
    /\ walkStarted = {0} /\ walkDone = {}
    /\ walkQueries = 0 /\ walkWrites = 0 /\ rerun = "first" /\ prevResult = <<>>
    /\ prevDone = {}

\* the process is single-threaded and runs until it returns or raises
SpecLongWalk == LongWalkInit /\ [][WalkNext]_vars /\ WF_vars(WalkNext)

\* ------------------------------------------------------------- justify_format
\* str(d) of one decimal digit
DigitChar(d) ==
    CASE d = 0 -> "0" [] d = 1 -> "1" [] d = 2 -> "2" [] d = 3 -> "3" [] d = 4 -> "4"
      [] d = 5 -> "5" [] d = 6 -> "6" [] d = 7 -> "7" [] d = 8 -> "8" [] d = 9 -> "9"

\* the decimal digits of n >= 0, and n's three digits with leading zeros
RECURSIVE Decimal(_)
Decimal(n) == IF n < 10 THEN DigitChar(n) ELSE Decimal(n \div 10) \o DigitChar(n % 10)

ThreeDigits(n) ==
    DigitChar(n \div 100) \o DigitChar((n \div 10) % 10) \o DigitChar(n % 10)

\* '{:,}'.format(n): a sign, and the digits in groups of three
RECURSIVE Grouped(_)
Grouped(n) ==
    IF n < 1000 THEN Decimal(n) ELSE Grouped(n \div 1000) \o "," \o ThreeDigits(n % 1000)

format_int(n) == IF n < 0 THEN "-" \o Grouped(-n) ELSE Grouped(n)

RECURSIVE Repeat(_, _)
Repeat(char, n) == IF n <= 0 THEN "" ELSE char \o Repeat(char, n - 1)

\* (the filler as wide as the shortfall at every shortfall)
dot_string_exact(just_len) ==
    IF just_len <= 2
    THEN CASE just_len = 0 -> "" [] just_len = 1 -> " " [] just_len = 2 -> ". "
    ELSE " " \o Repeat(".", just_len - 2) \o " "

\* dot_map and the else branch
dot_string(just_len) ==
    IF just_len <= 2
    THEN CASE just_len = 0 -> "" [] just_len = 1 -> " " [] just_len = 2 -> ". "
    ELSE " " \o Repeat(".", just_len) \o " "

find_and_replace(doc, id, text) ==
    IF id \in DOMAIN doc THEN [doc EXCEPT ![id] = text] ELSE doc

\* the text justify_format writes for new_text
formatted(value) == IF "int" \in DOMAIN value THEN format_int(value.int) ELSE value.str

\* the document after justify_format(root, element_id, new_text, length)
justify_format(doc, id, value, width) ==
    LET text == formatted(value)
        just_len == Max(0, width - Len(text))
    IN find_and_replace(find_and_replace(doc, id, text), id \o "_dots", dot_string(just_len))

JustifyFormat ==
    /\ jpc \in {"call", "done"}
    /\ root' = justify_format(root, element_id, new_text, length)
    /\ jpc' = "done"
    /\ UNCHANGED <<element_id, new_text, length>>
    /\ UNCHANGED <<cacheVars, archiveVars, mainVars>>

\* the values svg_overwrite passes: counts, the net LOC (it can be negative),
\* and the age string
JustifyValues ==
    {[int |-> n] : n \in (0..MaxValue) \cup {-1200, -7, 999999, 1000000, 1234567}}
      \cup {[str |-> Repeat("y", n)] : n \in 0..MaxText}

\* the templates: the element and its filler, or the element alone
JustifyInit ==
    /\ CacheIdle /\ ArchiveIdle /\ MainIdle
    /\ element_id = "loc_data"
    /\ root \in {[id \in {"loc_data", "loc_data_dots"} |-> "?"],
                  [id \in {"loc_data"} |-> "?"]}
    /\ new_text \in JustifyValues
    /\ length \in 0..MaxLength
    /\ jpc = "call"

JustifyNext == JustifyFormat

SpecJustify == JustifyInit /\ [][JustifyNext]_vars

\* ---------------------------------------------------------------- add_archive
\* A line of repository_archive.txt is the sequence of its fields (split()),
\* a field the sequence of its characters.
Digits == {DigitChar(d) : d \in 0..9}

\* str(n) as a field
RECURSIVE DecimalChars(_)
DecimalChars(n) ==
    IF n < 10 THEN <<DigitChar(n)>> ELSE Append(DecimalChars(n \div 10), DigitChar(n % 10))

\* str.isdigit() and int() of a field of digits
str_isdigit(field) == field # <<>> /\ \A k \in 1..Len(field) : field[k] \in Digits

RECURSIVE py_int(_)
py_int(field) ==
    IF field = <<>> THEN 0
    ELSE 10 * py_int(SubSeq(field, 1, Len(field) - 1))
           + (CHOOSE d \in 0..9 : DigitChar(d) = field[Len(field)])

\* s[a:b] of Python, b possibly negative
PySlice(seq, a, b) ==
    LET stop == IF b < 0 THEN Max(0, Len(seq) + b) ELSE Min(b, Len(seq))
    IN SubSeq(seq, Min(a, Len(seq)) + 1, stop)

\* (the data rows taken as if the footer had four lines)
archive_rows_footer_4(lines) == PySlice(lines, 7, Len(lines) - 4)

\* data[7 : len(data) - 3]
archive_rows(lines) == PySlice(lines, 7, Len(lines) - 3)

\* the for loop of add_archive; a row is repo_hash, total_commits, my_commits, *loc
RECURSIVE archive_loop(_, _, _, _)
archive_loop(rows, added_loc, deleted_loc, added_commits) ==
    IF rows = <<>> THEN <<added_loc, deleted_loc, added_commits>>
    ELSE LET line == Head(rows)
         IN archive_loop(Tail(rows), added_loc + py_int(line[4]),
                         deleted_loc + py_int(line[5]),
                         IF str_isdigit(line[3]) THEN added_commits + py_int(line[3])
                         ELSE added_commits)

\* what add_archive returns for the lines of the file
add_archive(old_data) ==
    LET rows == archive_rows(old_data)
        sums == archive_loop(rows, 0, 0, 0)
    IN IF old_data = <<>> THEN <<0, 0, 0, 0, 0>>
       ELSE LET last == old_data[Len(old_data)][5]
                carried == py_int(SubSeq(last, 1, Len(last) - 1))
            IN <<sums[1], sums[2], sums[1] - sums[2], sums[3] + carried, Len(rows)>>

AddArchive ==
    /\ apc = "call"
    /\ archive_data' = add_archive(archive)
    /\ apc' = "done"
    /\ UNCHANGED archive
    /\ UNCHANGED <<cacheVars, justifyVars, mainVars>>

\* the files: a header of 7 lines, the rows, a footer of 3 lines whose last
\* line carries the accumulated commit total in its fifth field
NotAvailable == <<"N", "/", "A">>
ArchiveNumbers == {0, 2, 3, 5, 7, 10, 20, 100}

ArchiveRows ==
    {<<hash, DecimalChars(total), mine, DecimalChars(additions), DecimalChars(deletions)>> :
        hash \in {<<"h", "1">>, <<"h", "2">>}, total \in {2, 5},
        mine \in {DecimalChars(3), NotAvailable}, additions \in {10, 100},
        deletions \in {0, 20}}

CommentLine == << <<"#">> >>

ArchiveFooter(total) ==
    <<CommentLine, CommentLine,
      <<<<"#">>, <<"c", "o", "m", "m", "i", "t", "s">>, <<"s", "o">>,
        <<"f", "a", "r", ":">>, Append(DecimalChars(total), ".")>> >>

ArchiveFiles ==
    {<<>>} \cup
    {[i \in 1..7 |-> CommentLine] \o rows \o ArchiveFooter(total) :
        rows \in SeqsUpTo(ArchiveRows, MaxArchiveRows), total \in {0, 7}}

ArchiveInit ==
    /\ CacheIdle /\ JustifyIdle /\ MainIdle
    /\ archive \in ArchiveFiles
    /\ archive_data = <<>>
    /\ apc = "call"

ArchiveNext == AddArchive

SpecArchive == ArchiveInit /\ [][ArchiveNext]_vars

\* ------------------------------------------------------------------ __main__
\* The steps of __main__ in order. A step that queries GraphQL goes through
\* simple_request, which raises on a status other than 200; nothing in __main__
\* catches, so a raise ends the run.
MainSteps ==
    <<"startup", "user_getter", "daily_readme", "loc_query", "commit_counter",
      "graph_repos_stars(stars)", "graph_repos_stars(repos)", "graph_repos_stars(contrib)",
      "follower_getter", "get_pr_issue_counts", "add_archive", "svg_overwrite(dark)",
      "svg_overwrite(light)", "done">>

StepAfter(step) == MainSteps[(CHOOSE k \in 1..Len(MainSteps) : MainSteps[k] = step) + 1]

GraphQLSteps ==
    {"user_getter", "graph_repos_stars(stars)", "graph_repos_stars(repos)",
     "graph_repos_stars(contrib)", "follower_getter"}

LocalSteps == {"daily_readme", "commit_counter", "add_archive", "svg_overwrite(dark)",
               "svg_overwrite(light)"}

\* os.environ["ACCESS_TOKEN"] and os.environ["USER_NAME"] at import
Startup(configured) ==
    /\ mpc = "startup"
    /\ IF configured THEN mpc' = StepAfter(mpc) /\ failure' = failure
       ELSE mpc' = "aborted" /\ failure' = "configuration"
    /\ UNCHANGED <<rest_page, results, pr_results, pr_count, issue_count, pr_failed>>
    /\ UNCHANGED <<cacheVars, justifyVars, archiveVars>>

\* simple_request(query, variables) of a step with one query
simple_request(status) == IF status = 200 THEN "response" ELSE "raise"

GraphQLStep(status) ==
    /\ mpc \in GraphQLSteps
    /\ IF simple_request(status) = "raise"
       THEN mpc' = "aborted" /\ failure' = "transport"
       ELSE mpc' = StepAfter(mpc) /\ failure' = failure
    /\ UNCHANGED <<rest_page, results, pr_results, pr_count, issue_count, pr_failed>>
    /\ UNCHANGED <<cacheVars, justifyVars, archiveVars>>

\* loc_query as __main__ sees it: it returns, its listing query raises, or
\* recursive_loc raises under it
LocQuery(outcome) ==
    /\ mpc = "loc_query"
    /\ IF outcome = "return"
       THEN mpc' = StepAfter(mpc) /\ failure' = failure
       ELSE mpc' = "aborted" /\ failure' = outcome
    /\ UNCHANGED <<rest_page, results, pr_results, pr_count, issue_count, pr_failed>>
    /\ UNCHANGED <<cacheVars, justifyVars, archiveVars>>

\* a step that queries nothing
LocalStep ==
    /\ mpc \in LocalSteps
    /\ mpc' = StepAfter(mpc)
    /\ UNCHANGED <<rest_page, results, pr_results, pr_count, issue_count, failure,
                   pr_failed>>
    /\ UNCHANGED <<cacheVars, justifyVars, archiveVars>>

\* ------------------------------------------------------- get_pr_issue_counts
\* a REST response: session.get or raise_for_status raises ("error"), or the
\* body is a list, a dict with "items", or something else; next: the Link
\* header names a next page
RestResponses ==
    [kind : {"error", "list", "items", "other"}, items : 0..MaxItems, next : BOOLEAN]

\* one turn of the while loop of _iter_paginated_rest
iter_paginated_rest(response, so_far) ==
    IF response.kind = "error" THEN [kind |-> "raise", results |-> so_far]
    ELSE IF response.kind \in {"list", "items"}
    THEN [kind |-> IF response.next THEN "next" ELSE "return",
          results |-> so_far + response.items]
    ELSE [kind |-> "raise", results |-> so_far]

\* (an except clause that keeps the pull requests counted before the failure)
pr_issue_except_keeps(pr_len) == <<pr_len, 0>>

\* except Exception: return 0, 0
pr_issue_except(pr_len) == <<0, 0>>

\* get_pr_issue_counts up to its first request
PrIssueCall ==
    /\ mpc = "get_pr_issue_counts"
    /\ mpc' = "pr_search"
    /\ rest_page' = 1 /\ results' = 0 /\ pr_results' = 0
    /\ UNCHANGED <<pr_count, issue_count, failure, pr_failed>>
    /\ UNCHANGED <<cacheVars, justifyVars, archiveVars>>

\* one request of the pull-request or of the issue search, and what follows it
RestPage(response) ==
    /\ mpc \in {"pr_search", "issue_search"}
    /\ rest_page = MaxRestPages => ~response.next
    /\ LET out == iter_paginated_rest(response, results)
       IN CASE out.kind = "raise" ->
                 /\ pr_count' = pr_issue_except(pr_results)[1]
                 /\ issue_count' = pr_issue_except(pr_results)[2]
                 /\ pr_failed' = TRUE
                 /\ failure' = "soft"
                 /\ mpc' = StepAfter("get_pr_issue_counts")
                 /\ UNCHANGED <<rest_page, results, pr_results>>
            [] out.kind = "next" ->
                 /\ results' = out.results
                 /\ rest_page' = rest_page + 1
                 /\ UNCHANGED <<mpc, pr_results, pr_count, issue_count, pr_failed, failure>>
            [] out.kind = "return" /\ mpc = "pr_search" ->
                 /\ pr_results' = out.results
                 /\ mpc' = "issue_search"
                 /\ results' = 0 /\ rest_page' = 1
                 /\ UNCHANGED <<pr_count, issue_count, pr_failed, failure>>
            [] out.kind = "return" /\ mpc = "issue_search" ->
                 /\ results' = out.results
                 /\ pr_count' = pr_results
                 /\ issue_count' = out.results
                 /\ mpc' = StepAfter("get_pr_issue_counts")
                 /\ UNCHANGED <<rest_page, pr_results, pr_failed, failure>>
    /\ UNCHANGED <<cacheVars, justifyVars, archiveVars>>

MainInit ==
    /\ CacheIdle /\ JustifyIdle /\ ArchiveIdle
    /\ mpc = "startup" /\ rest_page = 0 /\ results = 0 /\ pr_results = 0
    /\ pr_count = 0 /\ issue_count = 0 /\ failure = "" /\ pr_failed = FALSE

MainNext ==
    \/ \E configured \in BOOLEAN : Startup(configured)
    \/ \E status \in Statuses : GraphQLStep(status)
    \/ \E outcome \in {"return", "transport", "walk"} : LocQuery(outcome)
    \/ LocalStep
    \/ PrIssueCall
    \/ \E response \in RestResponses : RestPage(response)

SpecMain == MainInit /\ [][MainNext]_vars

\* ------------------------------------------------- what the properties speak of
\* the live listing entry and the server's repository of the 0-based index i
EdgeAt(i) == edges[i + 1]
RepoAt(i) == server[EdgeAt(i).nameWithOwner]

LiveCount(i) == IF EdgeAt(i).defaultBranchRef THEN EdgeAt(i).totalCount ELSE 0

\* the data rows of the cache file on disk
FileRows == Drop(cacheFile.lines, comment_size)
FileComment == Take(cacheFile.lines, comment_size)

\* the commits of a history by the tracked user, and their totals
AuthoredByMe(commits) == SelectSeq(commits, LAMBDA c : c.author = owner_id)

RECURSIVE TotalAdditions(_)
TotalAdditions(commits) ==
    IF commits = <<>> THEN 0 ELSE Head(commits).additions + TotalAdditions(Tail(commits))

RECURSIVE TotalDeletions(_)
TotalDeletions(commits) ==
    IF commits = <<>> THEN 0 ELSE Head(commits).deletions + TotalDeletions(Tail(commits))

\* what a completed walk of the repository is to return
HistoryTotals(repo) ==
    IF repo.defaultBranchRef
    THEN <<TotalAdditions(AuthoredByMe(repo.commits)),
           TotalDeletions(AuthoredByMe(repo.commits)),
           Len(AuthoredByMe(repo.commits))>>
    ELSE <<0, 0, 0>>

HasLoc(row) == row.additions # 0 \/ row.deletions # 0

\* the process died in recursive_loc on a response
WalkCrashed == pc = "crashed" /\ error \notin {"IndexError", "RecursionError"}

\* recursive_loc has just returned to cache_builder
WalkReturned == pc = "loop" /\ index >= 1 /\ (index - 1) \in walkDone /\ walkQueries >= 1

\* the fatal response came on page 2 of a history of 3 pages
CrashOnPage2Of3 ==
    /\ WalkCrashed
    /\ walkQueries = 2
    /\ RepoAt(index).defaultBranchRef
    /\ Len(RepoAt(index).commits) > 2 * PageSize
    /\ Len(RepoAt(index).commits) <= 3 * PageSize

\* ----------------------------------------------------------------------- C1
\* C1: a pass returns was_fully_cached = true only if it called the walker for
\* no repository, the row count matched the list and force_cache was not set;
\* a pass that re-walks a repository returns the flag false.
C1_FlagFalseWhenRewalked ==
    pc = "done" =>
        /\ (result[4] => walkStarted = {} /\ ~resynced /\ ~force_cache)
        /\ (walkStarted # {} => ~result[4])

\* ----------------------------------------------------------------------- C2
\* C2: a second pass, without force_cache, over the file a completed pass left,
\* with the same list and the same live counts, calls the walker for no
\* repository, and returns was_fully_cached = true and the first pass's
\* (added, deleted, net).
C2_RerunIsCached ==
    (rerun = "done" /\ ~force_cache) =>
        /\ walkStarted = {}
        /\ pc # "crashed"
        /\ pc = "done" =>
              /\ result[4] = TRUE
              /\ SubSeq(result, 1, 3) = SubSeq(prevResult, 1, 3)

\* the first pass walked two repositories and found lines, the second is done
C2_Witness ==
    /\ rerun = "done" /\ ~force_cache /\ pc = "done"
    /\ Len(edges) = 2
    /\ \A i \in 0..1 : LiveCount(i) # 0
    /\ ~prevResult[4]
    /\ prevResult[1] > 0

\* ----------------------------------------------------------------------- C3
\* C3 as claimed: when the row count differs from the list's length, the rows
\* are zero when reconciliation starts, and after the pass a row carries
\* nonzero LOC if and only if its repository's live commit count is nonzero.
C3_LocIffLiveCount ==
    (pc = "done" /\ resynced) =>
        /\ \A i \in 0..(Len(edges) - 1) : data0[i + 1] = ZeroRow(EdgeAt(i).nameWithOwner)
        /\ \A i \in 0..(Len(edges) - 1) : HasLoc(FileRows[i + 1]) <=> LiveCount(i) # 0

\* C3 amended: when the row count differs from the list's length, the rows are
\* zero when reconciliation starts, the repositories walked in the pass are
\* exactly those with a nonzero live commit count, and after the pass a row
\* carries nonzero LOC only if its repository's live commit count is nonzero.
C3_WalkedIffLiveCount ==
    (pc = "done" /\ resynced) =>
        /\ Len(FileRows) = Len(edges)
        /\ \A i \in 0..(Len(edges) - 1) : data0[i + 1] = ZeroRow(EdgeAt(i).nameWithOwner)
        /\ walkDone = {i \in 0..(Len(edges) - 1) : LiveCount(i) # 0}
        /\ \A i \in 0..(Len(edges) - 1) : HasLoc(FileRows[i + 1]) => LiveCount(i) # 0

\* after a resynchronisation, one walked repository has lines of the user and
\* another, with a nonzero live count too, has none
C3_Witness ==
    /\ pc = "done" /\ resynced
    /\ \E i, j \in 0..(Len(edges) - 1) :
          /\ LiveCount(i) # 0 /\ HasLoc(FileRows[i + 1])
          /\ LiveCount(j) # 0 /\ ~HasLoc(FileRows[j + 1])

\* ----------------------------------------------------------------------- C4
\* C4 as claimed: after a fatal response on page 2 of a 3-page history the file
\* is the comment block plus the rows up to the repository being walked, whose
\* row carries what page 1 contributed; later repositories have no entry.
C4_CrashKeepsPageOne ==
    CrashOnPage2Of3 =>
        /\ FileComment = cache_comment
        /\ Len(FileRows) = index + 1
        /\ FileRows[index + 1].additions = addition_total
        /\ FileRows[index + 1].deletions = deletion_total
        /\ FileRows[index + 1].my_commits = my_commits

\* C4 amended: after a fatal response on page 2 of a 3-page history the file is
\* the comment block plus one row per repository of the list; the row of the
\* repository being walked and the rows of the repositories not yet reached are
\* as they were when reconciliation started (page 1's contributions are in no
\* row).
C4_CrashKeepsRows ==
    CrashOnPage2Of3 =>
        /\ FileComment = cache_comment
        /\ FileRows = data
        /\ Len(FileRows) = Len(edges)
        /\ \A j \in index..(Len(edges) - 1) : FileRows[j + 1] = data0[j + 1]

\* page 1 contributed lines, and a repository of the list was not yet reached
C4_Witness ==
    /\ CrashOnPage2Of3
    /\ addition_total > 0 /\ my_commits > 0
    /\ index + 1 < Len(edges)

\* ----------------------------------------------------------------------- C5
\* C5: when recursive_loc dies on a non-200 response it has written the file
\* once, as the comment block followed by the rows in memory; the row of every
\* repository whose walk completed earlier in the pass carries the live commit
\* count and the walked totals; and a re-run without force_cache on the same
\* list and counts does not walk those repositories again.
C5_FlushBeforeAbort ==
    /\ WalkCrashed =>
          /\ status_code # 200
          /\ walkWrites = 1
          /\ cacheFile.lines = cache_comment \o data
          /\ \A j \in walkDone :
                FileRows[j + 1] =
                    Row(sha256(EdgeAt(j).nameWithOwner), EdgeAt(j).totalCount,
                        HistoryTotals(RepoAt(j))[3], HistoryTotals(RepoAt(j))[1],
                        HistoryTotals(RepoAt(j))[2])
    /\ (rerun = "crashed" /\ ~force_cache) => walkStarted \cap prevDone = {}

\* the re-run after a crash that followed a completed walk has finished
C5_Witness ==
    /\ rerun = "crashed" /\ ~force_cache
    /\ prevDone # {}
    /\ pc = "done"
    /\ walkDone # {}

\* ----------------------------------------------------------------------- C6
\* C6: a walk of a repository with a default branch that returns (every page
\* answered 200) returns the additions, the deletions and the number of the
\* commits of the whole history that the tracked user authored.
C6_WalkSumsMyCommits ==
    (WalkReturned /\ RepoAt(index - 1).defaultBranchRef) =>
        loc = HistoryTotals(RepoAt(index - 1))

\* a returned walk of three pages with commits of both authors
C6_Witness ==
    /\ WalkReturned
    /\ walkQueries = 3
    /\ \E k \in 1..Len(RepoAt(index - 1).commits) :
          /\ RepoAt(index - 1).commits[k].author = other_id
          /\ RepoAt(index - 1).commits[k].additions > 0
    /\ loc[1] > 0 /\ loc[2] > 0 /\ loc[3] >= 2

\* ----------------------------------------------------------------------- C7
\* C7: a 200 response that reports no default branch makes recursive_loc
\* return (0, 0, 0): it does not raise, it has issued one query, and it has not
\* written the cache file.
C7_EmptyRepository ==
    LET walked == IF pc = "loop" THEN index - 1 ELSE index
    IN (/\ pc \in {"walk", "loop", "crashed"}
        /\ walkQueries >= 1
        /\ status_code = 200
        /\ ~RepoAt(walked).defaultBranchRef) =>
           /\ WalkReturned
           /\ loc = <<0, 0, 0>>
           /\ walkQueries = 1
           /\ walkWrites = 0
           /\ error = ""

\* the walk of an empty repository, after another repository was walked
C7_Witness ==
    /\ WalkReturned
    /\ ~RepoAt(index - 1).defaultBranchRef
    /\ index = 2
    /\ 0 \in walkDone

\* ----------------------------------------------------------------------- C8
\* the shortfall of the text justify_format wrote, and the filler it wrote
Shortfall == length - Len(root[element_id])
Filler == root[element_id \o "_dots"]
FillerWritten == jpc = "done" /\ (element_id \o "_dots") \in DOMAIN root /\ Shortfall >= 0

\* C8 as claimed: when the formatted text is not longer than the target width,
\* the filler has as many characters as the shortfall, so that filler and text
\* together are as wide as the target width.
C8_FillerIsShortfall ==
    FillerWritten => Len(Filler) = Shortfall /\ Len(Filler) + Len(root[element_id]) = length

\* C8 amended: when the formatted text is not longer than the target width, the
\* filler has as many characters as the shortfall if the shortfall is at most
\* 2, and the shortfall plus 2 (a space, a period per missing character, a
\* space) if it exceeds 2; filler and text together are as wide as the target
\* width in the first case and 2 wider in the second.
C8_FillerWidth ==
    FillerWritten =>
        /\ root[element_id] = formatted(new_text)
        /\ Len(Filler) = IF Shortfall <= 2 THEN Shortfall ELSE Shortfall + 2
        /\ Shortfall > 2 => Filler = " " \o Repeat(".", Shortfall) \o " "

\* a number with a thousands separator, written with a shortfall above 2
C8_Witness ==
    /\ FillerWritten
    /\ "int" \in DOMAIN new_text
    /\ new_text.int = 1024
    /\ root[element_id] = "1,024"
    /\ length = 9
    /\ Filler = " .... "

\* ----------------------------------------------------------------------- C9
\* the number a field of the archive writes, if it writes one
IsNumber(field) == \E n \in ArchiveNumbers : DecimalChars(n) = field
NumberOf(field) == CHOOSE n \in ArchiveNumbers : DecimalChars(n) = field

\* the rows between the 7-line header and the 3-line footer, and the total the
\* last line carries
RowsOfArchive == SubSeq(archive, 8, Len(archive) - 3)
CarriedTotal ==
    LET last == archive[Len(archive)][5]
    IN NumberOf(SubSeq(last, 1, Len(last) - 1))

RECURSIVE SumOfField(_, _)
SumOfField(rows, k) ==
    IF rows = <<>> THEN 0
    ELSE (IF IsNumber(Head(rows)[k]) THEN NumberOf(Head(rows)[k]) ELSE 0)
           + SumOfField(Tail(rows), k)

ExampleRows ==
    << <<<<"h", "1">>, <<"5">>, <<"3">>, <<"1", "0", "0">>, <<"2", "0">>>>,
       <<<<"h", "2">>, <<"2">>, NotAvailable, <<"1", "0">>, <<"0">>>> >>

\* C9: for a file with a 7-line header and a 3-line footer add_archive returns
\* the sum of the rows' additions, the sum of their deletions, their
\* difference, the sum of the numeric my_commits fields plus, once, the total
\* on the last line, and the number of rows; the rows (h1,5,3,100,20),
\* (h2,2,N/A,10,0) give 110, 20, 90, 3 plus the carried total, and 2.
C9_ArchiveTotals ==
    (apc = "done" /\ Len(archive) >= 10) =>
        /\ archive_data = <<SumOfField(RowsOfArchive, 4), SumOfField(RowsOfArchive, 5),
                            SumOfField(RowsOfArchive, 4) - SumOfField(RowsOfArchive, 5),
                            SumOfField(RowsOfArchive, 3) + CarriedTotal,
                            Len(RowsOfArchive)>>
        /\ RowsOfArchive = ExampleRows =>
              archive_data = <<110, 20, 90, 3 + CarriedTotal, 2>>

\* the example of the claim, with 7 commits carried on the last line
C9_Witness ==
    /\ apc = "done"
    /\ Len(archive) = 12
    /\ RowsOfArchive = ExampleRows
    /\ archive_data = <<110, 20, 90, 10, 2>>

\* ---------------------------------------------------------------------- C10
\* C10: when a request of the pull-request or issue search fails,
\* get_pr_issue_counts returns (0, 0) and the run goes on to add_archive and
\* svg_overwrite; a failure of any other class ends the run, and the run ends
\* early for no other reason.
C10_SoftFailure ==
    /\ pr_failed =>
          /\ pr_count = 0 /\ issue_count = 0
          /\ mpc \in {"add_archive", "svg_overwrite(dark)", "svg_overwrite(light)", "done"}
    /\ pr_failed <=> failure = "soft"
    /\ mpc = "aborted" <=> failure \in {"configuration", "transport", "walk"}

\* the issue search failed after the pull-request search had counted results,
\* and the run has rendered both badges
C10_Witness ==
    /\ pr_failed
    /\ pr_results > 0
    /\ mpc = "done"

\* ---------------------------------------------------------------------- C11
\* the lines cache_builder has loaded: the file's, or the placeholders it
\* has just created the file with
PriorLines ==
    IF cacheFile.exists THEN cacheFile.lines
    ELSE [i \in 1..comment_size |-> Placeholder]

\* the step in which a process enters cache_builder and reaches the for loop
PassBegins == pc \notin {"loop", "walk"} /\ pc' = "loop"

\* C11: when the row count of the file differs from the length of the list,
\* or force_cache is set, then as the for loop starts the file is the comment
\* block of the previous file, unchanged, followed by one row
\* "<sha256(nameWithOwner)> 0 0 0 0" per repository in list order, and the
\* rows in memory are these rows, row i for repository i.
C11_ResyncAligns ==
    [][(PassBegins /\ (Len(PriorLines) - comment_size # Len(edges') \/ force_cache')) =>
          /\ cacheFile'.exists
          /\ cacheFile'.lines =
                SubSeq(PriorLines, 1, comment_size)
                  \o [i \in 1..Len(edges') |->
                        Row(sha256(edges'[i].nameWithOwner), 0, 0, 0, 0)]
          /\ cache_comment' = SubSeq(PriorLines, 1, comment_size)
          /\ Len(data') = Len(edges')
          /\ \A i \in 1..Len(edges') :
                data'[i] = Row(sha256(edges'[i].nameWithOwner), 0, 0, 0, 0)
          /\ ~cached']_vars

\* a forced pass over the list of two repositories of a completed pass that
\* found lines, on a file whose comment block was edited by hand: the rows
\* are zero again and the comment block is the edited one
C11_Witness ==
    /\ pc = "loop" /\ index = 0 /\ walkStarted = {}
    /\ force_cache /\ ~resynced
    /\ rerun = "done" /\ prevResult[1] > 0
    /\ Len(edges) = 2
    /\ cache_comment = [i \in 1..comment_size |-> UserComment]
    /\ cacheFile.lines = cache_comment \o data
    /\ \A i \in 1..2 : data[i] = ZeroRow(edges[i].nameWithOwner)

\* ---------------------------------------------------------------------- C12
\* C12: after every completed pass, whatever lists the earlier passes were
\* given, the file has one data row per repository of the list of this pass,
\* and the i-th row carries sha256(nameWithOwner) of the i-th repository.
C12_RowsFollowList ==
    pc = "done" =>
        /\ Len(FileRows) = Len(edges)
        /\ \A i \in 0..(Len(edges) - 1) :
              FileRows[i + 1].repo_hash = sha256(EdgeAt(i).nameWithOwner)

\* ---------------------------------------------------------------------- C13
\* what the for loop is to leave in the place of the row stored for index i
Reconciled(i) ==
    LET stored == data0[i + 1]
        walked == HistoryTotals(RepoAt(i))
    IN IF stored.repo_hash # sha256(EdgeAt(i).nameWithOwner) THEN stored
       ELSE IF ~EdgeAt(i).defaultBranchRef THEN Row(stored.repo_hash, 0, 0, 0, 0)
       ELSE IF stored.total_commits # EdgeAt(i).totalCount
       THEN Row(stored.repo_hash, EdgeAt(i).totalCount, walked[3], walked[1], walked[2])
       ELSE stored

\* the indices whose stored row matches the hash and not the live count
NeedsWalk ==
    {i \in 0..(Len(edges) - 1) :
        /\ data0[i + 1].repo_hash = sha256(EdgeAt(i).nameWithOwner)
        /\ EdgeAt(i).defaultBranchRef
        /\ data0[i + 1].total_commits # EdgeAt(i).totalCount}

\* the rows in memory during and after the for loop
RowsReconciled ==
    pc \in {"loop", "walk", "done"} =>
        /\ Len(data) = Len(edges) /\ Len(data0) = Len(edges)
        /\ \A i \in 0..(Len(edges) - 1) :
              data[i + 1] = IF i < index THEN Reconciled(i) ELSE data0[i + 1]
        /\ walkStarted = {i \in NeedsWalk : i < index \/ (i = index /\ pc = "walk")}
        /\ pc = "done" => cacheFile.lines = cache_comment \o data

\* the for loop leaves the comment block alone, and the write after it puts
\* back the comment block the file had
CommentKept ==
    pc \in {"loop", "walk"} =>
        /\ cache_comment' = cache_comment
        /\ pc' = "done" =>
              SubSeq(cacheFile'.lines, 1, comment_size) =
                  SubSeq(cacheFile.lines, 1, comment_size)

\* C13: in the for loop a row is overwritten only if its stored hash is the
\* hash of the repository of its index, and then it becomes "hash 0 0 0 0" if
\* the repository has no default branch, or "hash live-count my-commits
\* additions deletions" of the walk if the stored count differs from the live
\* count; the walker is called for the hash-matching rows whose count differs
\* and for no other; every other row and the comment block are written back
\* unchanged.
C13_OnlyStaleRowsChange == [](RowsReconciled) /\ [][CommentKept]_vars

\* a completed pass of two repositories walked one of them again and wrote
\* back, unchanged, the row of the other, which carries lines
C13_Witness ==
    /\ pc = "done" /\ ~force_cache /\ ~resynced
    /\ Len(edges) = 2
    /\ walkDone = {1}
    /\ FileRows[1] = data0[1] /\ HasLoc(data0[1])
    /\ FileRows[2] # data0[2]
    /\ FileComment = [i \in 1..comment_size |-> UserComment]

\* ---------------------------------------------------------------------- C14
\* the repository of the walk in progress, or of the walk that has ended
WalkedRepo == server[WalkedName]

\* the pages of a history: a history without commits has one, empty, page
PagesOf(repo) ==
    IF ~repo.defaultBranchRef \/ repo.commits = <<>> THEN 1
    ELSE (Len(repo.commits) + PageSize - 1) \div PageSize

\* the pages are requested in cursor order, one query a page, none after the
\* last; the walk returns on the last page; a walk that does not return has
\* gone the way of force_close_file and the raise
WalkInOrder ==
    /\ pc = "walk" =>
          /\ cursor = walkQueries * PageSize
          /\ walkQueries < PagesOf(WalkedRepo)
    /\ WalkReturned => walkQueries = PagesOf(WalkedRepo)
    /\ (pc = "crashed" /\ error # "IndexError") =>
          /\ status_code # 200
          /\ walkWrites = 1
          /\ cacheFile.lines = cache_comment \o data

\* a request that does not end the walk is followed by the request of a later page
CursorAdvances ==
    (pc = "walk" /\ pc' = "walk") =>
        /\ cursor' > cursor
        /\ walkQueries' = walkQueries + 1

\* C14: a walk of a finite history ends; its pages are requested strictly in
\* cursor order, one query a page and no page twice; it returns on the first
\* page that is empty or has hasNextPage = false and requests no page after
\* it; a walk that does not return ends by the fatal-failure path (the file
\* written, then the raise on a non-200 response).
C14_WalkEnds == [](WalkInOrder) /\ [][CursorAdvances]_vars /\ <>(pc # "walk")

\* ---------------------------------------------------------------------- C15
\* the sum of a field over the rows numbered 1..n
RECURSIVE AdditionsUpTo(_, _)
AdditionsUpTo(rows, n) ==
    IF n = 0 THEN 0 ELSE AdditionsUpTo(rows, n - 1) + rows[n].additions

RECURSIVE DeletionsUpTo(_, _)
DeletionsUpTo(rows, n) ==
    IF n = 0 THEN 0 ELSE DeletionsUpTo(rows, n - 1) + rows[n].deletions

\* C15: a completed pass returns the sum of the additions and the sum of the
\* deletions of all the data rows it has written to the file, each row
\* counted once, and their difference as the net.
C15_TotalsAreRowSums ==
    pc = "done" =>
        /\ Len(FileRows) = Len(data)
        /\ result[1] = AdditionsUpTo(FileRows, Len(FileRows))
        /\ result[2] = DeletionsUpTo(FileRows, Len(FileRows))
        /\ result[3] = result[1] - result[2]

\* a completed pass of two repositories, the first of whose rows carries lines
C15_Witness ==
    /\ pc = "done"
    /\ Len(FileRows) = 2
    /\ HasLoc(FileRows[1])
    /\ result[1] > result[2] /\ result[2] > 0
    /\ result[3] > 0
====
